---- MODULE Spec2Model ----
(***************************************************************************)
(* Model of utils.py: credential selection for the warehouse connection,   *)
(* the metadata fetcher, the query executor and the chart generator.       *)
(*                                                                         *)
(* Strings whose characters matter (the token file content, the token) are *)
(* sequences of one-character strings; an HTML fragment is a sequence of   *)
(* text pieces, "" being the empty sequence.  A dict is a function whose   *)
(* DOMAIN is its key set.  A DataFrame is [columns, rows].                 *)
(***************************************************************************)
EXTENDS Integers, Sequences, FiniteSets, TLC

VARIABLES
    tokenFile,     \* the file at token_path: [exists, readable, content]
    op,            \* the operation performed last (a call, or a change of the token file)
    outcome,       \* "none" | "returned" | "raised": how that call ended
    params,        \* dict returned by get_connection_params / passed to connect
    prevParams,    \* the value of params after the call before the last one
    connectCalls,  \* number of snowflake.connector.connect calls of the last create_connection
    conn,          \* value returned by the last create_connection ("none" | "conn")
    cursorState,   \* cursor of the last metadata/query call: "none" | "open" | "closed"
    fail,          \* the step of the last call that was made to fail ("none": no step)
    fetched,       \* what cursor.fetchall() delivered to the last call
    description,   \* cursor.description seen by the last query_snowflake call
    metadata,      \* value returned by get_snowflake_metadata: [isNone, dict]
    table,         \* DataFrame returned by query_snowflake: [columns, rows]
    data,          \* the data argument of the last visual_generate call
    response,      \* the response argument of the last visual_generate call
    html           \* string returned by visual_generate

vars == <<tokenFile, op, outcome, params, prevParams, connectCalls, conn, cursorState, fail,
          fetched, description, metadata, table, data, response, html>>

authVars == <<tokenFile, params, prevParams, connectCalls, conn>>
cursorVars == <<cursorState, fetched, description, metadata, table>>
chartVars == <<data, response, html>>

\* ---------------------------------------------------------------- bounds
MaxLen == 3      \* longest token file content
MaxRows == 2     \* most rows a fetchall or a table delivers
MaxCols == 2     \* most columns of a result set or a table

\* ---------------------------------------------------------------- values
Chars == {" ", "a"}
Whitespace == {" "}

RECURSIVE SeqsUpTo(_, _)
SeqsUpTo(S, n) ==
    IF n = 0 THEN {<<>>}
    ELSE LET shorter == SeqsUpTo(S, n - 1)
         IN  shorter \cup {Append(s, x) : s \in {t \in shorter : Len(t) = n - 1}, x \in S}

SeqsOfLen(S, n) == {s \in SeqsUpTo(S, n) : Len(s) = n}

EmptyDict == [k \in {} |-> <<>>]

\* ------------------------------------------------- configuration (os.getenv)
SNOWFLAKE_USER == "env:SNOWFLAKE_USER"
SNOWFLAKE_PASSWORD == "env:SNOWFLAKE_PASSWORD"
SNOWFLAKE_ACCOUNT == "env:SNOWFLAKE_ACCOUNT"
SNOWFLAKE_WAREHOUSE == "env:SNOWFLAKE_WAREHOUSE"
SNOWFLAKE_DATABASE == "env:SNOWFLAKE_DATABASE"
SNOWFLAKE_SCHEMA == "env:SNOWFLAKE_SCHEMA"
SNOWFLAKE_HOST == "env:SNOWFLAKE_HOST"

\* ---------------------------------------------------------------- exceptions
\* Classes of the errors the steps raise; all derive from Exception.
ExceptionClasses == {"OSError", "DatabaseError", "TypeError", "ValueError"}

\* A handler written for the driver's errors only.
ExceptDatabaseError(cls) == cls = "DatabaseError"

\* `except Exception`: the handler catches every class deriving from Exception.
ExceptException(cls) == cls \in ExceptionClasses

NoExc == [cls |-> "none", msg |-> ""]
Exc(cls, msg) == [cls |-> cls, msg |-> msg]

\* ---------------------------------------------------------------- str.strip
RECURSIVE lstrip(_)
lstrip(s) ==
    IF s = <<>> THEN s
    ELSE IF Head(s) \in Whitespace THEN lstrip(Tail(s)) ELSE s

RECURSIVE rstrip(_)
rstrip(s) ==
    IF s = <<>> THEN s
    ELSE IF s[Len(s)] \in Whitespace THEN rstrip(SubSeq(s, 1, Len(s) - 1)) ELSE s

strip(s) == rstrip(lstrip(s))

\* ---------------------------------------------------------------- token file
\* No file at token_path: the module is loaded outside the container service.
NoTokenFile == [exists |-> FALSE, readable |-> FALSE, content |-> <<>>]

\* get_login_token keeping the token of an earlier call instead of re-reading.
get_login_token_cached(file) ==
    IF "token" \in DOMAIN params
    THEN [exc |-> NoExc, isNone |-> FALSE, value |-> params.token]
    ELSE IF file.exists
    THEN IF file.readable
         THEN [exc |-> NoExc, isNone |-> FALSE, value |-> strip(file.content)]
         ELSE [exc |-> Exc("OSError", "Permission denied"), isNone |-> TRUE, value |-> <<>>]
    ELSE [exc |-> NoExc, isNone |-> TRUE, value |-> <<>>]

\* get_login_token: [exc, isNone, value]
get_login_token(file) ==
    IF file.exists
    THEN IF file.readable
         THEN [exc |-> NoExc, isNone |-> FALSE, value |-> strip(file.content)]
         ELSE [exc |-> Exc("OSError", "Permission denied"), isNone |-> TRUE, value |-> <<>>]
    ELSE [exc |-> NoExc, isNone |-> TRUE, value |-> <<>>]

\* Python truthiness of the token: None and "" are falsy.
Truthy(token) == ~token.isNone /\ token.value # <<>>

\* The username/password branch of get_connection_params.
PasswordParams ==
    [account |-> SNOWFLAKE_ACCOUNT,
     host |-> SNOWFLAKE_HOST,
     user |-> SNOWFLAKE_USER,
     password |-> SNOWFLAKE_PASSWORD,
     warehouse |-> SNOWFLAKE_WAREHOUSE,
     database |-> SNOWFLAKE_DATABASE,
     schema |-> SNOWFLAKE_SCHEMA]

\* get_connection_params: [exc, value]
get_connection_params(file) ==
    LET token == get_login_token(file)
    IN  IF token.exc.cls # "none"
        THEN [exc |-> token.exc, value |-> EmptyDict]
        ELSE IF Truthy(token)
        THEN [exc |-> NoExc,
              value |-> [account |-> SNOWFLAKE_ACCOUNT,
                         host |-> SNOWFLAKE_HOST,
                         authenticator |-> "oauth",
                         token |-> token.value,
                         warehouse |-> SNOWFLAKE_WAREHOUSE,
                         database |-> SNOWFLAKE_DATABASE,
                         schema |-> SNOWFLAKE_SCHEMA]]
        ELSE [exc |-> NoExc, value |-> PasswordParams]

\* ---------------------------------------------------------------- initial state
NoTable == [columns |-> <<>>, rows |-> <<>>]
NoDescription == [isNone |-> TRUE, cols |-> <<>>]

Init ==
    /\ tokenFile = NoTokenFile
    /\ op = "init"
    /\ outcome = "none"
    /\ params = EmptyDict
    /\ prevParams = EmptyDict
    /\ connectCalls = 0
    /\ conn = "none"
    /\ cursorState = "none"
    /\ fail = "none"
    /\ fetched = <<>>
    /\ description = NoDescription
    /\ metadata = [isNone |-> TRUE, dict |-> EmptyDict]
    /\ table = NoTable
    /\ data = NoTable
    /\ response = ""
    /\ html = <<>>

\* ---------------------------------------------------------------- file system
\* The environment creates or rewrites the token file.
WriteTokenFile ==
    \E c \in SeqsUpTo(Chars, MaxLen) :
        /\ tokenFile' = [exists |-> TRUE, readable |-> TRUE, content |-> c]
        /\ op' = "write_token_file"
        /\ outcome' = "none"
        /\ UNCHANGED <<params, prevParams, connectCalls, conn, fail>>
        /\ UNCHANGED cursorVars
        /\ UNCHANGED chartVars

\* The environment deletes the token file.
DeleteTokenFile ==
    /\ tokenFile.exists
    /\ tokenFile' = NoTokenFile
    /\ op' = "delete_token_file"
    /\ outcome' = "none"
    /\ UNCHANGED <<params, prevParams, connectCalls, conn, fail>>
    /\ UNCHANGED cursorVars
    /\ UNCHANGED chartVars

\* The environment makes the existing token file unreadable (open/read raises).
RevokeTokenFile ==
    /\ tokenFile.exists
    /\ tokenFile.readable
    /\ tokenFile' = [tokenFile EXCEPT !.readable = FALSE]
    /\ op' = "revoke_token_file"
    /\ outcome' = "none"
    /\ UNCHANGED <<params, prevParams, connectCalls, conn, fail>>
    /\ UNCHANGED cursorVars
    /\ UNCHANGED chartVars

\* ---------------------------------------------------------------- credentials
GetConnectionParams ==
    LET r == get_connection_params(tokenFile)
    IN  /\ op' = "get_connection_params"
        /\ outcome' = IF r.exc.cls # "none" THEN "raised" ELSE "returned"
        /\ params' = r.value
        /\ prevParams' = params
        /\ connectCalls' = 0
        /\ conn' = "none"
        /\ fail' = "none"
        /\ UNCHANGED tokenFile
        /\ UNCHANGED cursorVars
        /\ UNCHANGED chartVars

\* create_connection answering a failed token read with password credentials.
create_connection_fallback(file, connectOk) ==
    LET p == get_connection_params(file)
        args == IF p.exc.cls # "none" THEN PasswordParams ELSE p.value
    IN  IF ~connectOk
        THEN [exc |-> Exc("DatabaseError", "connect failed"),
              args |-> args, calls |-> 1, value |-> "none"]
        ELSE [exc |-> NoExc, args |-> args, calls |-> 1, value |-> "conn"]

\* create_connection: the arguments are evaluated first, then connect is
\* called once; the handler logs and re-raises.
create_connection(file, connectOk) ==
    LET p == get_connection_params(file)
    IN  IF p.exc.cls # "none"
        THEN [exc |-> p.exc, args |-> EmptyDict, calls |-> 0, value |-> "none"]
        ELSE IF ~connectOk
        THEN [exc |-> Exc("DatabaseError", "connect failed"),
              args |-> p.value, calls |-> 1, value |-> "none"]
        ELSE [exc |-> NoExc, args |-> p.value, calls |-> 1, value |-> "conn"]

CreateConnection ==
    \E connectOk \in BOOLEAN :
        LET r == create_connection(tokenFile, connectOk)
        IN  /\ op' = "create_connection"
            /\ outcome' = IF r.exc.cls # "none" THEN "raised" ELSE "returned"
            /\ params' = r.args
            /\ prevParams' = params
            /\ connectCalls' = r.calls
            /\ conn' = r.value
            /\ fail' = IF r.exc.cls = "DatabaseError" THEN "connect" ELSE "none"
            /\ UNCHANGED tokenFile
            /\ UNCHANGED cursorVars
            /\ UNCHANGED chartVars

Next ==
    \/ WriteTokenFile
    \/ DeleteTokenFile
    \/ RevokeTokenFile
    \/ GetConnectionParams
    \/ CreateConnection

Spec == Init /\ [][Next]_vars

\* ---------------------------------------------------------------- cursor steps
\* str(e) of the error a failing step raises.
ErrMsg(step) ==
    CASE step = "cursor" -> "cursor failed"
      [] step = "execute" -> "execute failed"
      [] step = "fetchall" -> "fetchall failed"
      [] step = "description" -> "'NoneType' object is not iterable"
      [] step = "close" -> "close failed"
      [] step = "reshape" -> "reshape failed"
      [] step = "build" -> "build failed"
      [] OTHER -> "error"

ErrClass(step) ==
    CASE step \in {"cursor", "execute", "fetchall", "close"} -> "DatabaseError"
      [] step = "description" -> "TypeError"
      [] OTHER -> "ValueError"

StepExc(step) == Exc(ErrClass(step), ErrMsg(step))

\* ---------------------------------------------------------------- metadata
Tables == {"T1", "T2"}
Columns == {"C1", "C2"}
Types == {"NUMBER", "TEXT"}
MetadataRows == SeqsUpTo(Tables \X Columns \X Types, MaxRows)
MetadataSteps == {"none", "cursor", "execute", "fetchall", "close", "reshape"}

Put(d, k, v) == [x \in DOMAIN d \cup {k} |-> IF x = k THEN v ELSE d[x]]

\* A dict built so that the first pair of a column wins.
RECURSIVE DictOfPairsFirstWins(_)
DictOfPairsFirstWins(group) ==
    IF group = <<>> THEN EmptyDict
    ELSE LET r == group[1]
         IN  Put(DictOfPairsFirstWins(Tail(group)), r[2], r[3])

\* {col: dtype for col, dtype in zip(x["COLUMN_NAME"], x["DATA_TYPE"])}
RECURSIVE DictOfPairs(_)
DictOfPairs(group) ==
    IF group = <<>> THEN EmptyDict
    ELSE LET r == group[Len(group)]
         IN  Put(DictOfPairs(SubSeq(group, 1, Len(group) - 1)), r[2], r[3])

\* groupby(TABLE_NAME).apply(...).to_dict()
GroupToDict(rs) ==
    [t \in {rs[i][1] : i \in DOMAIN rs} |->
        DictOfPairs(SelectSeq(rs, LAMBDA r : r[1] = t))]

\* The try block answering an empty row list with None.
MetadataBodyNoneOnEmpty(failAt, rs) ==
    IF failAt = "cursor"
    THEN [exc |-> StepExc("cursor"), isNone |-> TRUE, value |-> EmptyDict, cursor |-> "none"]
    ELSE IF failAt \in {"execute", "fetchall", "close"}
    THEN [exc |-> StepExc(failAt), isNone |-> TRUE, value |-> EmptyDict, cursor |-> "open"]
    ELSE IF rs = <<>>
    THEN [exc |-> NoExc, isNone |-> TRUE, value |-> EmptyDict, cursor |-> "closed"]
    ELSE IF failAt = "reshape"
    THEN [exc |-> StepExc("reshape"), isNone |-> TRUE, value |-> EmptyDict, cursor |-> "closed"]
    ELSE [exc |-> NoExc, isNone |-> FALSE, value |-> GroupToDict(rs), cursor |-> "closed"]

\* The try block of get_snowflake_metadata: [exc, isNone, value, cursor]
MetadataBody(failAt, rs) ==
    IF failAt = "cursor"
    THEN [exc |-> StepExc("cursor"), isNone |-> TRUE, value |-> EmptyDict, cursor |-> "none"]
    ELSE IF failAt \in {"execute", "fetchall", "close"}
    THEN [exc |-> StepExc(failAt), isNone |-> TRUE, value |-> EmptyDict, cursor |-> "open"]
    ELSE IF rs = <<>>
    THEN [exc |-> NoExc, isNone |-> FALSE, value |-> EmptyDict, cursor |-> "closed"]
    ELSE IF failAt = "reshape"
    THEN [exc |-> StepExc("reshape"), isNone |-> TRUE, value |-> EmptyDict, cursor |-> "closed"]
    ELSE [exc |-> NoExc, isNone |-> FALSE, value |-> GroupToDict(rs), cursor |-> "closed"]

\* The handler of get_snowflake_metadata answering an error with {}.
get_snowflake_metadata_emptyOnError(failAt, rs) ==
    LET b == MetadataBody(failAt, rs)
    IN  IF b.exc.cls = "none"
        THEN [raised |-> FALSE, isNone |-> b.isNone, dict |-> b.value, cursor |-> b.cursor]
        ELSE IF ExceptException(b.exc.cls)
        THEN [raised |-> FALSE, isNone |-> FALSE, dict |-> EmptyDict, cursor |-> b.cursor]
        ELSE [raised |-> TRUE, isNone |-> TRUE, dict |-> EmptyDict, cursor |-> b.cursor]

\* get_snowflake_metadata: [raised, isNone, dict, cursor]
get_snowflake_metadata(failAt, rs) ==
    LET b == MetadataBody(failAt, rs)
    IN  IF b.exc.cls = "none"
        THEN [raised |-> FALSE, isNone |-> b.isNone, dict |-> b.value, cursor |-> b.cursor]
        ELSE IF ExceptException(b.exc.cls)
        THEN [raised |-> FALSE, isNone |-> TRUE, dict |-> EmptyDict, cursor |-> b.cursor]
        ELSE [raised |-> TRUE, isNone |-> TRUE, dict |-> EmptyDict, cursor |-> b.cursor]

\* What fetchall handed over before the failing step, if it was reached.
Delivered(failAt, rs) == IF failAt \in {"cursor", "execute", "fetchall"} THEN <<>> ELSE rs

GetSnowflakeMetadata ==
    \E failAt \in MetadataSteps, rs \in MetadataRows :
        LET r == get_snowflake_metadata(failAt, rs)
        IN  /\ op' = "get_snowflake_metadata"
            /\ outcome' = IF r.raised THEN "raised" ELSE "returned"
            /\ fail' = IF MetadataBody(failAt, rs).exc.cls = "none" THEN "none" ELSE failAt
            /\ fetched' = Delivered(failAt, rs)
            /\ metadata' = [isNone |-> r.isNone, dict |-> r.dict]
            /\ cursorState' = r.cursor
            /\ description' = NoDescription
            /\ table' = NoTable
            /\ UNCHANGED authVars
            /\ UNCHANGED chartVars

NextMetadata == GetSnowflakeMetadata

\* The metadata fetcher on an established connection.
SpecMetadata == Init /\ [][NextMetadata]_vars

\* ---------------------------------------------------------------- query
ColumnNames == {"C1", "C2"}
Cells == {"x", "y"}
QuerySteps == {"none", "cursor", "execute", "fetchall", "description", "close", "build"}

\* cursor.description: None, or one (name, type_code) tuple per column.
Descriptions ==
    {NoDescription}
    \cup {[isNone |-> FALSE, cols |-> c] :
             c \in {s \in SeqsUpTo(ColumnNames \X {"type_code"}, MaxCols) : Len(s) >= 1}}

\* The row lists of a result set of the given width (one cell value per row).
ResultRows(width) == SeqsUpTo({[i \in 1..width |-> c] : c \in Cells}, MaxRows)

\* pd.DataFrame()
EmptyDataFrame == [columns |-> <<>>, rows |-> <<>>]

\* pd.DataFrame(result, columns=columns)
DataFrame(result, columns) == [columns |-> columns, rows |-> result]

\* pd.DataFrame({"Error": [str(e)]})
ErrorFrame(e) == [columns |-> <<"Error">>, rows |-> << <<e.msg>> >>]

\* The try block of query_snowflake: [exc, value, cursor]
QueryBody(failAt, descr, result) ==
    IF failAt = "cursor"
    THEN [exc |-> StepExc("cursor"), value |-> NoTable, cursor |-> "none"]
    ELSE IF failAt \in {"execute", "fetchall"}
    THEN [exc |-> StepExc(failAt), value |-> NoTable, cursor |-> "open"]
    ELSE IF failAt = "description" \/ descr.isNone
    THEN [exc |-> StepExc("description"), value |-> NoTable, cursor |-> "open"]
    ELSE IF failAt = "close"
    THEN [exc |-> StepExc("close"), value |-> NoTable, cursor |-> "open"]
    ELSE IF result = <<>>
    THEN [exc |-> NoExc, value |-> EmptyDataFrame, cursor |-> "closed"]
    ELSE IF failAt = "build"
    THEN [exc |-> StepExc("build"), value |-> NoTable, cursor |-> "closed"]
    ELSE [exc |-> NoExc,
          value |-> DataFrame(result, [i \in DOMAIN descr.cols |-> descr.cols[i][1]]),
          cursor |-> "closed"]

\* query_snowflake: [raised, value, cursor]
query_snowflake(failAt, descr, result) ==
    LET b == QueryBody(failAt, descr, result)
    IN  IF b.exc.cls = "none"
        THEN [raised |-> FALSE, value |-> b.value, cursor |-> b.cursor]
        ELSE IF ExceptException(b.exc.cls)
        THEN [raised |-> FALSE, value |-> ErrorFrame(b.exc), cursor |-> b.cursor]
        ELSE [raised |-> TRUE, value |-> NoTable, cursor |-> b.cursor]

QuerySnowflake ==
    \E failAt \in QuerySteps, descr \in Descriptions :
        \E result \in ResultRows(Len(descr.cols)) :
            LET r == query_snowflake(failAt, descr, result)
                b == QueryBody(failAt, descr, result)
            IN  /\ op' = "query_snowflake"
                /\ outcome' = IF r.raised THEN "raised" ELSE "returned"
                /\ fail' = IF b.exc.cls = "none" THEN "none"
                           ELSE IF b.exc.cls = "TypeError" THEN "description" ELSE failAt
                /\ fetched' = Delivered(failAt, result)
                /\ description' = descr
                /\ table' = r.value
                /\ cursorState' = r.cursor
                /\ metadata' = [isNone |-> TRUE, dict |-> EmptyDict]
                /\ UNCHANGED authVars
                /\ UNCHANGED chartVars

NextQuery == QuerySnowflake

\* The query executor on an established connection.
SpecQuery == Init /\ [][NextQuery]_vars

\* ---------------------------------------------------------------- chart
Titles == {"", "Sales by region"}
ChartSteps == {"none", "frame", "bar", "layout", "to_html"}

\* The tables handed to visual_generate: zero to MaxCols columns, zero to
\* MaxRows rows.
ChartData ==
    UNION {[columns : SeqsOfLen(ColumnNames, w), rows : ResultRows(w)] : w \in 0..MaxCols}

\* An emptiness test that looks at the columns only.
emptyColumnsOnly(df) == Len(df.columns) = 0

\* df.empty: some axis has length zero.
empty(df) == Len(df.columns) = 0 \/ Len(df.rows) = 0

\* px.bar(df, x=df.columns[0], y=df.columns[1], title=response) + update_layout
bar(df, title) ==
    [x |-> df.columns[1], y |-> df.columns[2], title |-> title,
     plot_bgcolor |-> "#2B2C2E", paper_bgcolor |-> "#2B2C2E", font_color |-> "#FFFFFF"]

\* pio.to_html(fig, full_html=False)
to_html(fig) == <<"<div>", fig.title, fig.x, fig.y, "</div>">>

\* The try block of visual_generate: [exc, value]
VisualBody(failAt, d, title) ==
    IF failAt = "frame"
    THEN [exc |-> Exc("ValueError", "frame failed"), value |-> <<>>]
    ELSE IF empty(d) \/ Len(d.columns) < 2
    THEN [exc |-> NoExc, value |-> <<>>]
    ELSE IF failAt \in {"bar", "layout", "to_html"}
    THEN [exc |-> Exc("ValueError", "chart failed"), value |-> <<>>]
    ELSE [exc |-> NoExc, value |-> to_html(bar(d, title))]

\* visual_generate: [raised, value]
visual_generate(failAt, d, title) ==
    LET b == VisualBody(failAt, d, title)
    IN  IF b.exc.cls = "none"
        THEN [raised |-> FALSE, value |-> b.value]
        ELSE IF ExceptException(b.exc.cls)
        THEN [raised |-> FALSE, value |-> <<>>]
        ELSE [raised |-> TRUE, value |-> <<>>]

VisualGenerate ==
    \E failAt \in ChartSteps, d \in ChartData, title \in Titles :
        LET r == visual_generate(failAt, d, title)
        IN  /\ op' = "visual_generate"
            /\ outcome' = IF r.raised THEN "raised" ELSE "returned"
            /\ fail' = IF VisualBody(failAt, d, title).exc.cls = "none" THEN "none" ELSE failAt
            /\ data' = d
            /\ response' = title
            /\ html' = r.value
            /\ UNCHANGED authVars
            /\ UNCHANGED cursorVars

NextChart == VisualGenerate

\* The chart generator on the tables a query can hand it.
SpecChart == Init /\ [][NextChart]_vars

\* ================================================================ claims
Keys(d) == DOMAIN d

\* ---------------------------------------------------------------- credentials
\* C1: after get_connection_params, if the token file exists and is readable
\* (whatever its content, empty or blank included) the parameters have
\* 'token' with authenticator 'oauth' and neither 'password' nor 'user'; if
\* the file is absent they have 'user' and 'password' and neither 'token' nor
\* 'authenticator'.
C1_TokenFileSelectsOAuth ==
    (op = "get_connection_params") =>
        /\ (tokenFile.exists /\ tokenFile.readable) =>
              /\ outcome = "returned"
              /\ "token" \in Keys(params)
              /\ "authenticator" \in Keys(params)
              /\ "password" \notin Keys(params)
              /\ "user" \notin Keys(params)
        /\ (~tokenFile.exists) =>
              /\ outcome = "returned"
              /\ {"user", "password"} \subseteq Keys(params)
              /\ "token" \notin Keys(params)
              /\ "authenticator" \notin Keys(params)

\* C7: create_connection raises when an existing token file cannot be read
\* or when connect fails, and then returns no connection; connect is called
\* at most once, not at all when the token read fails, and a failed token
\* read never ends in username/password credentials being used.
C7_CreateConnectionPropagates ==
    (op = "create_connection") =>
        /\ connectCalls <= 1
        /\ (tokenFile.exists /\ ~tokenFile.readable) =>
              /\ outcome = "raised"
              /\ conn = "none"
              /\ connectCalls = 0
              /\ "password" \notin Keys(params)
              /\ "user" \notin Keys(params)
        /\ (fail = "connect") =>
              /\ outcome = "raised"
              /\ conn = "none"
              /\ connectCalls = 1
        /\ (outcome = "returned") => (conn = "conn" /\ connectCalls = 1)

C7_Witness_TokenReadFails ==
    /\ op = "create_connection"
    /\ tokenFile.exists
    /\ ~tokenFile.readable
    /\ outcome = "raised"

\* C8: the token is not cached: after every get_connection_params or
\* create_connection call the authentication mode and the token are those
\* of the token file as it is at that call, whatever earlier calls returned.
C8_TokenNotCached ==
    (op \in {"get_connection_params", "create_connection"}) =>
        /\ ("token" \in Keys(params)) =>
              /\ tokenFile.exists
              /\ tokenFile.readable
              /\ params.token = strip(tokenFile.content)
        /\ ("password" \in Keys(params)) =>
              \/ ~tokenFile.exists
              \/ tokenFile.readable /\ strip(tokenFile.content) = <<>>
        /\ (Keys(params) = {}) => (tokenFile.exists /\ ~tokenFile.readable)

\* A call that returned one token is followed, after the file was rewritten,
\* by a call that returns another one.
C8_Witness_TokenChanged ==
    /\ op \in {"get_connection_params", "create_connection"}
    /\ "token" \in Keys(prevParams)
    /\ "token" \in Keys(params)
    /\ prevParams.token # params.token

\* ---------------------------------------------------------------- metadata
\* The indices of the fetched rows of a table, and of a column of a table.
RowsOf(t) == {i \in DOMAIN fetched : fetched[i][1] = t}
RowsOfColumn(t, c) == {i \in RowsOf(t) : fetched[i][2] = c}
Last(S) == CHOOSE i \in S : \A j \in S : j <= i

\* C4: when the introspection query runs without error and delivers zero
\* rows, get_snowflake_metadata returns {} and not None; None is returned
\* only when some step raised.
C4_EmptyMetadataIsEmptyDict ==
    (op = "get_snowflake_metadata") =>
        /\ (fail = "none" /\ fetched = <<>>) =>
              (~metadata.isNone /\ Keys(metadata.dict) = {})
        /\ metadata.isNone => (fail # "none")

C4_Witness_NoRows ==
    /\ op = "get_snowflake_metadata"
    /\ fail = "none"
    /\ fetched = <<>>
    /\ ~metadata.isNone

\* C5: get_snowflake_metadata never raises; when a step (cursor, execute,
\* fetchall, close, reshape) fails it returns None, not an empty or partial
\* mapping.
C5_MetadataFailureIsNone ==
    (op = "get_snowflake_metadata") =>
        /\ outcome = "returned"
        /\ (fail # "none") => (metadata.isNone /\ Keys(metadata.dict) = {})

C5_Witness_ReshapeFails ==
    /\ op = "get_snowflake_metadata"
    /\ fail = "reshape"
    /\ fetched # <<>>
    /\ outcome = "returned"
    /\ metadata.isNone

\* C9: for a non-empty, successfully fetched row list the result's keys are
\* exactly the table names of the rows, each table's keys are exactly the
\* column names of its rows, and each column maps to the type of the last
\* row of that (table, column) pair.
C9_MetadataShape ==
    (op = "get_snowflake_metadata" /\ fail = "none" /\ fetched # <<>>) =>
        /\ ~metadata.isNone
        /\ Keys(metadata.dict) = {fetched[i][1] : i \in DOMAIN fetched}
        /\ \A t \in Keys(metadata.dict) :
              /\ Keys(metadata.dict[t]) = {fetched[i][2] : i \in RowsOf(t)}
              /\ \A c \in Keys(metadata.dict[t]) :
                    metadata.dict[t][c] = fetched[Last(RowsOfColumn(t, c))][3]

\* Two rows of one (table, column) pair disagree on the type.
C9_Witness_RedeclaredColumn ==
    /\ op = "get_snowflake_metadata"
    /\ fail = "none"
    /\ \E i, j \in DOMAIN fetched :
          /\ i < j
          /\ fetched[i][1] = fetched[j][1]
          /\ fetched[i][2] = fetched[j][2]
          /\ fetched[i][3] # fetched[j][3]
          /\ metadata.dict[fetched[j][1]][fetched[j][2]] = fetched[j][3]

\* ---------------------------------------------------------------- query
DescribedNames == [i \in DOMAIN description.cols |-> description.cols[i][1]]

\* C2: when the query runs without error and fetchall delivers zero rows,
\* the returned table has zero rows and its column headers are exactly the
\* names of cursor.description, in order.
C2_EmptyResultKeepsHeaders ==
    (op = "query_snowflake" /\ fail = "none" /\ fetched = <<>>) =>
        /\ table.rows = <<>>
        /\ table.columns = DescribedNames

\* C3: query_snowflake never raises; when a step (cursor, execute, fetchall,
\* description, close, build) fails it returns a table with the one column
\* 'Error' and one row whose cell is the error's message.
C3_QueryFailureIsErrorTable ==
    (op = "query_snowflake") =>
        /\ outcome = "returned"
        /\ (fail # "none") =>
              /\ table.columns = <<"Error">>
              /\ table.rows = << <<ErrMsg(fail)>> >>

C3_Witness_DescriptionFails ==
    /\ op = "query_snowflake"
    /\ fail = "description"
    /\ outcome = "returned"
    /\ table.columns = <<"Error">>

\* C10: a cursor opened by get_snowflake_metadata or query_snowflake is
\* closed when the function has returned, on every path.
C10_CursorClosedOnReturn ==
    (op \in {"get_snowflake_metadata", "query_snowflake"}) => (cursorState # "open")

\* ---------------------------------------------------------------- chart
\* C6: visual_generate never raises; it returns "" when the table has fewer
\* than two columns or zero rows or a step fails, and a non-empty string
\* only for a table of at least two columns and one row that rendered.
C6_ChartEmptyOnInsufficientData ==
    (op = "visual_generate") =>
        /\ outcome = "returned"
        /\ (Len(data.columns) < 2 \/ Len(data.rows) = 0 \/ fail # "none") => (html = <<>>)
        /\ (html # <<>>) => (Len(data.columns) >= 2 /\ Len(data.rows) >= 1 /\ fail = "none")

C6_Witness_TwoColumnsNoRows ==
    /\ op = "visual_generate"
    /\ Len(data.columns) >= 2
    /\ Len(data.rows) = 0
    /\ fail = "none"
    /\ html = <<>>

====
